---- MODULE Spec2Model ----
(***************************************************************************)
(* Model of morse-player (src/src/morse_player.rs): the AudioPlayer        *)
(* facade, the play() session with its worker thread and two notification  *)
(* tasks, the play_audio scheduler, the rodio sink it feeds, and the       *)
(* encoder that produces the symbol sequence the scheduler streams.        *)
(*                                                                         *)
(* Characters are one-character strings.  A speed value is a pair          *)
(* <<numerator, denominator>> of integers.                                 *)
(***************************************************************************)
EXTENDS Integers, Sequences, FiniteSets, TLC

(***************************************************************************)
(* Bounds of the model.                                                    *)
(***************************************************************************)
\* most words of a text set_text is called with
MaxWords == 2

\* the longest text of the enumerated texts
MaxTextLen == 6

\* the largest argument of set_delay the durations are computed for
MaxDelay == 3

(***************************************************************************)
(* Program constants.                                                      *)
(***************************************************************************)
SINK_BUFFER_SIZE == 3

START_TEXT ==
  << ".", "*", ".", "*", ".", "*", "-", "$",
     ".", "*", ".", "*", ".", "*", "-", "$",
     ".", "*", ".", "*", ".", "*", "-", "/",
     "-", "*", ".", "*", ".", "*", ".", "*", "-", "/" >>

START_TEXT_COMPETITIONS_LETTERS ==
  << "-", "*", "-", "*", "-", "$",
     "-", "*", "-", "*", "-", "$",
     "-", "*", "-", "*", "-", "$",
     "-", "*", "-", "*", "-", "$",
     "-", "*", "-", "*", "-", "/" >>

START_TEXT_COMPETITIONS_DIGITS ==
  << "-", "*", "-", "*", "-", "*", "-", "*", "-", "$",
     "-", "*", "-", "*", "-", "*", "-", "*", "-", "$",
     "-", "*", "-", "*", "-", "*", "-", "*", "-", "$",
     "-", "*", "-", "*", "-", "*", "-", "*", "-", "$",
     "-", "*", "-", "*", "-", "*", "-", "*", "-", "/" >>

END_TEXT == << "/", ".", "*", "-", "*", ".", "*", "-", "*", "." >>

\* the char -> code table of gen_audio_prev_vec
morse ==
  [ A |-> <<".", "-">>,            B |-> <<"-", ".", ".", ".">>,
    C |-> <<"-", ".", "-", ".">>,  D |-> <<"-", ".", ".">>,
    E |-> <<".">>,                 F |-> <<".", ".", "-", ".">>,
    G |-> <<"-", "-", ".">>,       H |-> <<".", ".", ".", ".">>,
    I |-> <<".", ".">>,            J |-> <<".", "-", "-", "-">>,
    K |-> <<"-", ".", "-">>,       L |-> <<".", "-", ".", ".">>,
    M |-> <<"-", "-">>,            N |-> <<"-", ".">>,
    O |-> <<"-", "-", "-">>,       P |-> <<".", "-", "-", ".">>,
    Q |-> <<"-", "-", ".", "-">>,  R |-> <<".", "-", ".">>,
    S |-> <<".", ".", ".">>,       T |-> <<"-">>,
    U |-> <<".", ".", "-">>,       V |-> <<".", ".", ".", "-">>,
    W |-> <<".", "-", "-">>,       X |-> <<"-", ".", ".", "-">>,
    Y |-> <<"-", ".", "-", "-">>,  Z |-> <<"-", "-", ".", ".">> ]
  @@ ( "0" :> <<"-", "-", "-", "-", "-">> @@ "1" :> <<".", "-", "-", "-", "-">> @@
       "2" :> <<".", ".", "-", "-", "-">> @@ "3" :> <<".", ".", ".", "-", "-">> @@
       "4" :> <<".", ".", ".", ".", "-">> @@ "5" :> <<".", ".", ".", ".", ".">> @@
       "6" :> <<"-", ".", ".", ".", ".">> @@ "7" :> <<"-", "-", ".", ".", ".">> @@
       "8" :> <<"-", "-", "-", ".", ".">> @@ "9" :> <<"-", "-", "-", "-", ".">> @@
       "." :> <<".", "-", ".", "-", ".", "-">> @@
       "," :> <<"-", "-", ".", ".", "-", "-">> @@
       "/" :> <<"-", ".", ".", "-", ".">> @@
       "?" :> <<".", ".", "-", "-", ".", ".">> @@
       "=" :> <<"-", ".", ".", ".", "-">> )

\* the table AudioPlayer::new builds: symbol -> <<action, duration multiplier>>
DefaultActionsLength ==
  "." :> <<0, 1>> @@ "-" :> <<0, 3>> @@ "*" :> <<1, 1>> @@
  "$" :> <<1, 3>> @@ "/" :> <<1, 7>> @@ "|" :> <<2, 0>>

\* the configuration AudioPlayer::new sets and no modelled setter changes
DefaultSpeed == <<100, 1>>
DefaultMinSpeed == <<100, 1>>
DefaultMaxSpeed == <<110, 1>>
DefaultModificationLen == 10

(***************************************************************************)
(* Rust integer arithmetic.                                                *)
(***************************************************************************)
\* i32 `/`: the quotient truncated toward zero
TruncDiv(a, b) ==
  IF (a >= 0) = (b > 0)
    THEN (IF a >= 0 THEN a ELSE -a) \div (IF b >= 0 THEN b ELSE -b)
    ELSE -((IF a >= 0 THEN a ELSE -a) \div (IF b >= 0 THEN b ELSE -b))

(***************************************************************************)
(* Speed values <<n, d>>, d # 0.                                           *)
(***************************************************************************)
RatSub(x, y) == << x[1] * y[2] - y[1] * x[2], x[2] * y[2] >>
RatAdd(x, y) == << x[1] * y[2] + y[1] * x[2], x[2] * y[2] >>
RatScale(x, num, den) == << x[1] * num, x[2] * den >>

(***************************************************************************)
(* gen_audio_prev_vec                                                      *)
(***************************************************************************)
\* the Speedup ramp divided by the length of the window
SpeedOnChar_OverWindow(speed_modification_type, min_speed, max_speed, modification_len, char_now) ==
  LET speed_difference == RatSub(max_speed, min_speed)
      half == TruncDiv(modification_len, 2)
  IN  CASE speed_modification_type = "Speedup" ->
             RatAdd(RatScale(speed_difference, char_now, modification_len), min_speed)
        [] speed_modification_type = "Slowing" ->
             RatSub(max_speed, RatScale(speed_difference, char_now, modification_len - 1))
        [] speed_modification_type = "Zigzag" ->
             IF char_now < half
               THEN RatAdd(RatScale(speed_difference, char_now, half - 1), min_speed)
               ELSE RatSub(max_speed, RatScale(speed_difference, char_now - half, half - 1))

\* the ramp value of the character at cyclic index char_now (match, 508-530);
\* modification_len is the window already multiplied by 5
SpeedOnChar(speed_modification_type, min_speed, max_speed, modification_len, char_now) ==
  LET speed_difference == RatSub(max_speed, min_speed)
      half == TruncDiv(modification_len, 2)
  IN  CASE speed_modification_type = "Speedup" ->
             RatAdd(RatScale(speed_difference, char_now, modification_len - 1), min_speed)
        [] speed_modification_type = "Slowing" ->
             RatSub(max_speed, RatScale(speed_difference, char_now, modification_len - 1))
        [] speed_modification_type = "Zigzag" ->
             IF char_now < half
               THEN RatAdd(RatScale(speed_difference, char_now, half - 1), min_speed)
               ELSE RatSub(max_speed, RatScale(speed_difference, char_now - half, half - 1))

\* the tones of a character kept apart by the gap that keeps characters apart
RECURSIVE CodeWithGaps_CharacterGaps(_)
CodeWithGaps_CharacterGaps(morse_code) ==
  IF Len(morse_code) = 0 THEN << >>
  ELSE IF Len(morse_code) = 1 THEN << morse_code[1] >>
  ELSE << morse_code[1], "$" >> \o CodeWithGaps_CharacterGaps(Tail(morse_code))

\* the symbols of one character: its code with '*' between the tones (541-548)
RECURSIVE CodeWithGaps(_)
CodeWithGaps(morse_code) ==
  IF Len(morse_code) = 0 THEN << >>
  ELSE IF Len(morse_code) = 1 THEN << morse_code[1] >>
  ELSE << morse_code[1], "*" >> \o CodeWithGaps(Tail(morse_code))

\* a '*' after every tone, the last one too
CharSymbols_GapAfterLastTone(element) ==
  IF element \in DOMAIN morse THEN Append(CodeWithGaps(morse[element]), "*") ELSE << >>

CharSymbols(element) ==
  IF element \in DOMAIN morse THEN CodeWithGaps(morse[element]) ELSE << >>

\* the SpeedMarker written before a word gap at the start of a window, without
\* its speed_pattern entry
GenStep_NoEntryAtWrap(st, element, is_last, min_speed, max_speed, speed_modification_type, modification_len) ==
  LET modified == element # " " /\ speed_modification_type # "None"
      pattern1 == IF modified
                    THEN Append(st.speed_pattern,
                                SpeedOnChar(speed_modification_type, min_speed, max_speed,
                                            modification_len, st.char_now))
                    ELSE st.speed_pattern
      char_now1 == IF modified
                     THEN (IF st.char_now + 1 = modification_len THEN 0 ELSE st.char_now + 1)
                     ELSE st.char_now
      vec1 == (IF modified THEN Append(st.audio_vec, "|") ELSE st.audio_vec)
                \o CharSymbols(element)
      audio_vec_len == Len(vec1)
  IN  IF st.panicked THEN st
      ELSE IF element # " " /\ ~is_last
        THEN [st EXCEPT !.speed_pattern = pattern1, !.char_now = char_now1,
                        !.audio_vec = Append(vec1, "$")]
      ELSE IF element = " "
        THEN IF audio_vec_len = 0
               THEN [st EXCEPT !.panicked = TRUE]
             ELSE IF char_now1 = 0 /\ speed_modification_type # "None"
               THEN [st EXCEPT !.speed_pattern = pattern1,
                               !.char_now = char_now1,
                               !.audio_vec = Append([vec1 EXCEPT ![audio_vec_len] = "|"], "/")]
             ELSE [st EXCEPT !.speed_pattern = pattern1, !.char_now = char_now1,
                             !.audio_vec = [vec1 EXCEPT ![audio_vec_len] = "/"]]
      ELSE [st EXCEPT !.speed_pattern = pattern1, !.char_now = char_now1,
                      !.audio_vec = vec1]

\* the word gap at the start of a window given the fast end of the ramp
GenStep_MaxSpeedAtWrap(st, element, is_last, min_speed, max_speed, speed_modification_type, modification_len) ==
  LET modified == element # " " /\ speed_modification_type # "None"
      pattern1 == IF modified
                    THEN Append(st.speed_pattern,
                                SpeedOnChar(speed_modification_type, min_speed, max_speed,
                                            modification_len, st.char_now))
                    ELSE st.speed_pattern
      char_now1 == IF modified
                     THEN (IF st.char_now + 1 = modification_len THEN 0 ELSE st.char_now + 1)
                     ELSE st.char_now
      vec1 == (IF modified THEN Append(st.audio_vec, "|") ELSE st.audio_vec)
                \o CharSymbols(element)
      audio_vec_len == Len(vec1)
  IN  IF st.panicked THEN st
      ELSE IF element # " " /\ ~is_last
        THEN [st EXCEPT !.speed_pattern = pattern1, !.char_now = char_now1,
                        !.audio_vec = Append(vec1, "$")]
      ELSE IF element = " "
        THEN IF audio_vec_len = 0
               THEN [st EXCEPT !.panicked = TRUE]
             ELSE IF char_now1 = 0 /\ speed_modification_type # "None"
               THEN [st EXCEPT !.speed_pattern = Append(pattern1, max_speed),
                               !.char_now = char_now1,
                               !.audio_vec = Append([vec1 EXCEPT ![audio_vec_len] = "|"], "/")]
             ELSE [st EXCEPT !.speed_pattern = pattern1, !.char_now = char_now1,
                             !.audio_vec = [vec1 EXCEPT ![audio_vec_len] = "/"]]
      ELSE [st EXCEPT !.speed_pattern = pattern1, !.char_now = char_now1,
                      !.audio_vec = vec1]

\* one iteration of the loop over the text (506-564); st.panicked records the
\* failed index audio_vec[audio_vec_len - 1] on an empty audio_vec
GenStep(st, element, is_last, min_speed, max_speed, speed_modification_type, modification_len) ==
  LET modified == element # " " /\ speed_modification_type # "None"
      pattern1 == IF modified
                    THEN Append(st.speed_pattern,
                                SpeedOnChar(speed_modification_type, min_speed, max_speed,
                                            modification_len, st.char_now))
                    ELSE st.speed_pattern
      char_now1 == IF modified
                     THEN (IF st.char_now + 1 = modification_len THEN 0 ELSE st.char_now + 1)
                     ELSE st.char_now
      vec1 == (IF modified THEN Append(st.audio_vec, "|") ELSE st.audio_vec)
                \o CharSymbols(element)
      audio_vec_len == Len(vec1)
  IN  IF st.panicked THEN st
      ELSE IF element # " " /\ ~is_last
        THEN [st EXCEPT !.speed_pattern = pattern1, !.char_now = char_now1,
                        !.audio_vec = Append(vec1, "$")]
      ELSE IF element = " "
        THEN IF audio_vec_len = 0
               THEN [st EXCEPT !.panicked = TRUE]
             ELSE IF char_now1 = 0 /\ speed_modification_type # "None"
               THEN [st EXCEPT !.speed_pattern = Append(pattern1, min_speed),
                               !.char_now = char_now1,
                               !.audio_vec = Append([vec1 EXCEPT ![audio_vec_len] = "|"], "/")]
             ELSE [st EXCEPT !.speed_pattern = pattern1, !.char_now = char_now1,
                             !.audio_vec = [vec1 EXCEPT ![audio_vec_len] = "/"]]
      ELSE [st EXCEPT !.speed_pattern = pattern1, !.char_now = char_now1,
                      !.audio_vec = vec1]

\* the loop; each iteration's state is bound once, as the one element of a
\* set, before the next iteration reads it
RECURSIVE GenLoop(_, _, _, _, _, _, _)
GenLoop(st, text, i, min_speed, max_speed, speed_modification_type, modification_len) ==
  IF i > Len(text) THEN st
  ELSE CHOOSE r \in
         { GenLoop(st1, text, i + 1, min_speed, max_speed, speed_modification_type,
                   modification_len) :
             st1 \in { GenStep(st, text[i], i = Len(text), min_speed, max_speed,
                               speed_modification_type, modification_len) } } : TRUE

\* returns [speed_pattern, audio_vec, panicked]
gen_audio_prev_vec(text, min_speed, max_speed, speed_modification_type, modification_len) ==
  CHOOSE r \in
    { [speed_pattern |-> st.speed_pattern, audio_vec |-> st.audio_vec,
       panicked |-> st.panicked] :
        st \in { GenLoop([speed_pattern |-> << >>, audio_vec |-> << >>, char_now |-> 0,
                          panicked |-> FALSE],
                         text, 1, min_speed, max_speed, speed_modification_type,
                         modification_len * 5) } } : TRUE

(***************************************************************************)
(* gen_start_part_prev_vec                                                 *)
(***************************************************************************)
DigitChar(d) == << "0", "1", "2", "3", "4", "5", "6", "7", "8", "9" >>[d + 1]

\* i32::to_string of a non-negative value
RECURSIVE DecimalChars(_)
DecimalChars(n) ==
  IF n < 10 THEN << DigitChar(n) >>
  ELSE Append(DecimalChars(n \div 10), DigitChar(n % 10))

\* f32::round as i32 of a non-negative speed: half away from zero
RoundSpeed(speed) == (2 * speed[1] + speed[2]) \div (2 * speed[2])

gen_start_part_prev_vec(text_additions, text_type, speed) ==
  LET speed_chars_vec == DecimalChars(RoundSpeed(speed))
      speed_part == gen_audio_prev_vec(speed_chars_vec, <<100, 1>>, <<100, 1>>, "None", 10).audio_vec
  IN  CASE text_additions = "None" -> << >>
        [] text_additions = "Training" -> START_TEXT
        [] text_additions = "Competitions" ->
             IF text_type = "Digits"
               THEN START_TEXT_COMPETITIONS_DIGITS \o speed_part \o << "/" >> \o START_TEXT
               ELSE START_TEXT_COMPETITIONS_LETTERS \o speed_part \o << "/" >> \o START_TEXT

(***************************************************************************)
(* get_speed_from_text_type: the seconds of one unit, as a pair            *)
(***************************************************************************)
\* LETTERS_DURATION, DIGITS_DURATION, MIXED_DURATION in thousandths of a second
UnitMillis(text_type) ==
  CASE text_type = "Letters" -> 50
    [] text_type = "Digits" -> 34
    [] text_type = "Mixed" -> 42

\* DURATION * 100.0 / speed
get_speed_from_text_type(text_type, speed) ==
  << UnitMillis(text_type) * 100 * speed[2], 1000 * speed[1] >>

(***************************************************************************)
(* Durations: seconds as a pair <<n, d>> in lowest terms, d > 0.           *)
(***************************************************************************)
RECURSIVE Gcd(_, _)
Gcd(a, b) == IF b = 0 THEN a ELSE Gcd(b, a % b)

Abs(a) == IF a >= 0 THEN a ELSE -a

RatNorm(x) ==
  LET g == Gcd(Abs(x[1]), Abs(x[2]))
      sign == IF x[2] < 0 THEN -1 ELSE 1
  IN  << sign * (x[1] \div g), sign * (x[2] \div g) >>

\* f32 `*` by an integer and f32 `+`, on values in lowest terms; the sum is
\* taken over the least common denominator
RatTimes(x, n) == RatNorm(<< x[1] * n, x[2] >>)
RatPlus(x, y) ==
  LET g == Gcd(x[2], y[2])
  IN  RatNorm(<< x[1] * (y[2] \div g) + y[1] * (x[2] \div g), x[2] * (y[2] \div g) >>)

RatEq(x, y) == RatNorm(x) = RatNorm(y)
RatLeq(x, y) ==
  LET a == RatNorm(x)
      b == RatNorm(y)
      g == Gcd(a[2], b[2])
  IN  a[1] * (b[2] \div g) <= b[1] * (a[2] \div g)

\* (duration * 1000.0) as u64: the whole milliseconds of a duration, 0 for a
\* negative one; the quotient is taken digit by digit
MillisOf(duration) ==
  LET x == RatNorm(duration)
      whole == x[1] \div x[2]
      r0 == x[1] % x[2]
      d1 == (10 * r0) \div x[2]
      r1 == (10 * r0) % x[2]
      d2 == (10 * r1) \div x[2]
      r2 == (10 * r1) % x[2]
      d3 == (10 * r2) \div x[2]
  IN  IF x[1] < 0 THEN 0 ELSE 1000 * whole + 100 * d1 + 10 * d2 + d3

(***************************************************************************)
(* get_time_and_timings                                                    *)
(***************************************************************************)
\* the Option<&Vec<f32>> argument when it is None
NoPattern == "None"

\* the SpeedMarker that does not advance char_now: every marker reads the
\* first entry
TimeStep_FirstEntryOnly(st, element, text_type, speed_pattern, table) ==
  LET duration1 == RatPlus(st.duration, RatTimes(st.speed_to_use, table[element][2]))
      marker == table[element][1] = 2
      vec1 == IF element \in {"$", "/"}
                THEN Append(st.time_pattern_vec, MillisOf(duration1))
                ELSE st.time_pattern_vec
  IN  IF st.panicked THEN st
      ELSE IF element \notin DOMAIN table THEN [st EXCEPT !.panicked = TRUE]
      ELSE IF marker /\ (speed_pattern = NoPattern \/ st.char_now + 1 > Len(speed_pattern))
        THEN [st EXCEPT !.duration = duration1, !.panicked = TRUE]
      ELSE IF marker
        THEN [st EXCEPT !.duration = duration1,
                        !.speed_to_use =
                          RatNorm(get_speed_from_text_type(text_type,
                                                           speed_pattern[st.char_now + 1])),
                        !.time_pattern_vec = vec1]
      ELSE [st EXCEPT !.duration = duration1, !.time_pattern_vec = vec1]

\* the checkpoint taken before the gap's duration is added
TimeStep_BeforeGap(st, element, text_type, speed_pattern, table) ==
  LET duration1 == RatPlus(st.duration, RatTimes(st.speed_to_use, table[element][2]))
      marker == table[element][1] = 2
      vec1 == IF element \in {"$", "/"}
                THEN Append(st.time_pattern_vec, MillisOf(st.duration))
                ELSE st.time_pattern_vec
  IN  IF st.panicked THEN st
      ELSE IF element \notin DOMAIN table THEN [st EXCEPT !.panicked = TRUE]
      ELSE IF marker /\ (speed_pattern = NoPattern \/ st.char_now + 1 > Len(speed_pattern))
        THEN [st EXCEPT !.duration = duration1, !.panicked = TRUE]
      ELSE IF marker
        THEN [st EXCEPT !.duration = duration1,
                        !.speed_to_use =
                          RatNorm(get_speed_from_text_type(text_type,
                                                           speed_pattern[st.char_now + 1])),
                        !.char_now = st.char_now + 1,
                        !.time_pattern_vec = vec1]
      ELSE [st EXCEPT !.duration = duration1, !.time_pattern_vec = vec1]

\* one iteration of the loop (592-605); st.panicked records a failed unwrap
\* or a failed index speed_pattern[char_now]
TimeStep(st, element, text_type, speed_pattern, table) ==
  LET duration1 == RatPlus(st.duration, RatTimes(st.speed_to_use, table[element][2]))
      marker == table[element][1] = 2
      vec1 == IF element \in {"$", "/"}
                THEN Append(st.time_pattern_vec, MillisOf(duration1))
                ELSE st.time_pattern_vec
  IN  IF st.panicked THEN st
      ELSE IF element \notin DOMAIN table THEN [st EXCEPT !.panicked = TRUE]
      ELSE IF marker /\ (speed_pattern = NoPattern \/ st.char_now + 1 > Len(speed_pattern))
        THEN [st EXCEPT !.duration = duration1, !.panicked = TRUE]
      ELSE IF marker
        THEN [st EXCEPT !.duration = duration1,
                        !.speed_to_use =
                          RatNorm(get_speed_from_text_type(text_type,
                                                           speed_pattern[st.char_now + 1])),
                        !.char_now = st.char_now + 1,
                        !.time_pattern_vec = vec1]
      ELSE [st EXCEPT !.duration = duration1, !.time_pattern_vec = vec1]

RECURSIVE TimeLoop(_, _, _, _, _, _)
TimeLoop(st, audio_prev_vec, i, text_type, speed_pattern, table) ==
  IF i > Len(audio_prev_vec) THEN st
  ELSE CHOOSE r \in
         { TimeLoop(st1, audio_prev_vec, i + 1, text_type, speed_pattern, table) :
             st1 \in { TimeStep(st, audio_prev_vec[i], text_type, speed_pattern, table) } } :
         TRUE

\* returns [duration, time_pattern_vec, char_now, panicked]; char_now is the
\* number of speed_pattern entries the loop has read
get_time_and_timings(audio_prev_vec, text_type, speed, speed_pattern, table) ==
  CHOOSE r \in
    { [duration |-> st.duration, time_pattern_vec |-> st.time_pattern_vec,
       char_now |-> st.char_now, panicked |-> st.panicked] :
        st \in { TimeLoop([duration |-> <<0, 1>>,
                           speed_to_use |-> RatNorm(get_speed_from_text_type(text_type, speed)),
                           char_now |-> 0, time_pattern_vec |-> << 0 >>,
                           panicked |-> FALSE],
                          audio_prev_vec, 1, text_type, speed_pattern, table) } } : TRUE


(***************************************************************************)
(* play_audio: the symbol loop between two flush points                    *)
(***************************************************************************)
Sounds == {".", "-", "*", "$", "/"}

\* short_wave, long_wave, short_silence, medium_silence, long_silence: the
\* buffer cached for each sound, a wave or a silence of mult units (395-399,
\* 426-430)
MakeBuffers(speed_to_use, table) ==
  [e \in Sounds |-> [el |-> e, mult |-> table[e][2], unit |-> speed_to_use]]

\* a flush at every gap between characters as well
IsFlushPoint_CharacterGap(txt, i) == txt[i] \in {"/", "$"} \/ i = Len(txt)

\* `*element == '/' || i+1 == text.len()` (434), i counted from 1
IsFlushPoint(txt, i) == txt[i] = "/" \/ i = Len(txt)

\* one iteration of the symbol loop, lines 402-432, on
\* st = [sound_signal, buffers, char_now, speed_to_use, panicked]; panicked
\* records the failed index speed_pattern[char_now]
PlayStep(st, element, text_type, speed_pattern, table) ==
  LET action == table[element][1]
  IN  IF action = 2
        THEN IF st.char_now + 1 > Len(speed_pattern)
               THEN [st EXCEPT !.panicked = TRUE]
               ELSE LET s == get_speed_from_text_type(text_type,
                                                      speed_pattern[st.char_now + 1])
                    IN  [st EXCEPT !.speed_to_use = s,
                                   !.buffers = MakeBuffers(s, table),
                                   !.char_now = st.char_now + 1]
        ELSE [st EXCEPT !.sound_signal = Append(st.sound_signal, st.buffers[element])]

\* lines 401-434 from symbol i up to and including the next flush point; the
\* result carries i, the index of that flush point
RECURSIVE FillLoop(_, _, _, _, _, _)
FillLoop(st, txt, i, text_type, speed_pattern, table) ==
  CHOOSE r \in
    { IF st1.panicked \/ IsFlushPoint(txt, i)
        THEN [st |-> st1, i |-> i]
        ELSE FillLoop(st1, txt, i + 1, text_type, speed_pattern, table) :
      st1 \in { PlayStep(st, txt[i], text_type, speed_pattern, table) } } : TRUE

\* play_audio from symbol i on when no flush waits and the flag stays unset
\* (392-447): the chunks it appends, the speed_pattern entries it has read,
\* whether the index speed_pattern[char_now] failed
RECURSIVE PlayFrom(_, _, _, _, _, _, _, _)
PlayFrom(i, bufs, cn, chunks, txt, text_type, speed_pattern, table) ==
  IF i > Len(txt)
    THEN [chunks |-> chunks, char_now |-> cn, panicked |-> FALSE]
    ELSE CHOOSE p \in
           { IF r.st.panicked
               THEN [chunks |-> chunks, char_now |-> r.st.char_now, panicked |-> TRUE]
               ELSE PlayFrom(r.i + 1, r.st.buffers, r.st.char_now,
                             Append(chunks, r.st.sound_signal), txt, text_type,
                             speed_pattern, table) :
             r \in { FillLoop([sound_signal |-> << >>, buffers |-> bufs, char_now |-> cn,
                               speed_to_use |-> bufs["."].unit, panicked |-> FALSE],
                              txt, i, text_type, speed_pattern, table) } } : TRUE

PlayThrough(txt, text_type, speed, speed_pattern, table) ==
  PlayFrom(1, MakeBuffers(get_speed_from_text_type(text_type, speed), table), 0, << >>,
           txt, text_type, speed_pattern, table)

\* the cap compared one too high
FlushMayAppend_OffByOne(len) == len <= SINK_BUFFER_SIZE + 1

\* `sink.len() <= SINK_BUFFER_SIZE` (436): the flush may append
FlushMayAppend(len) == len <= SINK_BUFFER_SIZE

\* the drain loop left while the last chunk is still pending
DrainGoesOn_UntilOneLeft(len) == len > 1

\* `while sink.len() != 0` (449): the drain loop goes on
DrainGoesOn(len) == len # 0

\* the worker handed the player's shared table instead of the clone
SessionActionsLength_Shared(snapshot, live) == live

\* the table play_audio works with: the clone made in play() (195, 236), not
\* the player's table
SessionActionsLength(snapshot, live) == snapshot

(***************************************************************************)
(* set_delay                                                               *)
(***************************************************************************)
\* `(delay as f64 * 2.33) as i32` for 0 <= delay: the product truncated
WordDelay(delay) == (delay * 233) \div 100

SetDelayTable(table, delay) ==
  [table EXCEPT !["$"] = <<1, delay>>, !["/"] = <<1, WordDelay(delay)>>]

(***************************************************************************)
(* Inputs                                                                  *)
(***************************************************************************)
\* the texts set_text is called with: no text, a lone space, and one to
\* MaxWords words "E" with single spaces between them
RECURSIVE WordsText(_)
WordsText(k) ==
  IF k = 1 THEN << "E" >> ELSE WordsText(k - 1) \o << " ", "E" >>

Texts == { << >>, << " " >> } \cup { WordsText(k) : k \in 1..MaxWords }

\* the arguments of set_text_additions
Additions == {"None", "Training", "Competitions"}

\* the arguments of set_delay
Delays == {3}

\* the arguments of set_modification and of set_modification_length
Modifications == {"None", "Speedup", "Slowing", "Zigzag"}
Windows == {0, 1, 2}

\* the arguments of set_min_speed and set_max_speed, as pairs <<min, max>>
SpeedRanges == { << DefaultMinSpeed, DefaultMaxSpeed >>, << <<90, 1>>, <<120, 1>> >> }

\* every text of at most n characters taken from chars
TextsUpTo(chars, n) == UNION { [1..k -> chars] : k \in 0..n }

Repeat(c, n) == [k \in 1..n |-> c]

\* the texts the symbol sequence is previewed for: every text of at most
\* MaxTextLen characters over two letters and the space, every supported
\* character alone, and texts long enough to run through a window of ten
\* characters
ShortTexts == TextsUpTo({"E", "T", " "}, MaxTextLen)
LongTexts ==
  { << "S", "O", "S" >>,
    Repeat("E", 11),
    Repeat("E", 10) \o << " ", "E" >>,
    Repeat("E", 3) \o << " " >> \o Repeat("E", 8) }
PreviewTexts == ShortTexts \cup { << c >> : c \in DOMAIN morse } \cup LongTexts

\* the texts the durations are computed for: every text of at most MaxTextLen
\* characters over a letter of two tones and the space
TimingTexts == TextsUpTo({"A", " "}, MaxTextLen)

\* the tables the durations are computed with: the table of AudioPlayer::new
\* and the tables set_delay leaves
TimingTables ==
  { DefaultActionsLength } \cup { SetDelayTable(DefaultActionsLength, d) : d \in 0..MaxDelay }

\* the symbols the worker plays (216-228): start part, text, end part
TextToPlay(additions, text_type, speed, audio_vec) ==
  gen_start_part_prev_vec(additions, text_type, speed)
    \o audio_vec
    \o (IF additions # "None" THEN END_TEXT ELSE << >>)

(***************************************************************************)
(* State                                                                   *)
(***************************************************************************)
VARIABLES
  \* AudioPlayer fields
  text, text_additions, playing_started_callback, playing_ended_callback,
  actions_length, stop_flag,
  text_type, min_speed, max_speed, speed_modification_type, modification_len,
  \* the rodio sink behind the mutex: its queued chunks, whether it is paused,
  \* who holds the mutex, whether a panic poisoned the mutex
  sink, sinkPaused, sinkLock, sinkPoisoned,
  \* the caller's thread: its position in play() and in stop()
  playPc, stopPc,
  \* the locals play() moves into the worker and the tasks
  session,
  \* the worker thread: its position and the locals of play_audio
  workerPc, text_to_play, mode_speed_pattern, nextIndex, sound_signal, buffers,
  char_now, result,
  \* history of the worker: the chunks this play_audio call has appended
  appended,
  \* the start and the end notification task, the Notified futures they hold,
  \* the sleep timer of the start task
  startPc, endPc, startNotified, endNotified, timerFired,
  \* history of the session: notify_waiters calls, callback invocations,
  \* whether the timer elapsed before the first notify_waiters call, whether a
  \* stop() call returned, whether a stop() call set the flag while the worker
  \* was streaming
  notifyCount, startCalls, endCalls, timerFirst, stopReturned, stoppedMidStream,
  \* what the last query (get_text_duration, get_char_timings, the preview of
  \* the symbol sequence) computed and returned
  query

vars ==
  << text, text_additions, playing_started_callback, playing_ended_callback,
     actions_length, stop_flag, sink, sinkPaused, sinkLock, sinkPoisoned,
     playPc, stopPc, session, workerPc, text_to_play, mode_speed_pattern,
     nextIndex, sound_signal, buffers, char_now, result, startPc, endPc,
     startNotified, endNotified, timerFired, notifyCount, startCalls, endCalls,
     timerFirst, stopReturned, stoppedMidStream, text_type, min_speed, max_speed,
     speed_modification_type, modification_len, appended, query >>

profileVars ==
  << text_type, min_speed, max_speed, speed_modification_type, modification_len >>
configVars ==
  << text, text_additions, playing_started_callback, playing_ended_callback,
     actions_length, profileVars >>
sinkVars == << sink, sinkPaused, sinkLock, sinkPoisoned >>
workerLocals ==
  << text_to_play, mode_speed_pattern, nextIndex, sound_signal, buffers, char_now,
     appended >>
taskVars == << startPc, endPc, startNotified, endNotified, timerFired >>
historyVars ==
  << notifyCount, startCalls, endCalls, timerFirst, stopReturned, stoppedMidStream >>

NoBuffers == [e \in Sounds |-> [el |-> e, mult |-> 0, unit |-> <<0, 1>>]]

NoSession ==
  [text |-> << >>, text_type |-> "Letters", speed |-> DefaultSpeed,
   min_speed |-> DefaultMinSpeed, max_speed |-> DefaultMaxSpeed,
   speed_modification_type |-> "None", modification_len |-> DefaultModificationLen,
   additions |-> "None", start_callback |-> FALSE, end_callback |-> FALSE,
   actions_length |-> DefaultActionsLength]

NoQuery == [kind |-> "none"]

\* no play() called yet, no query made yet
NoPlayback ==
  /\ stop_flag = FALSE
  /\ sink = << >>
  /\ sinkPaused = FALSE
  /\ sinkLock = "free"
  /\ sinkPoisoned = FALSE
  /\ playPc = "idle"
  /\ stopPc = "idle"
  /\ session = NoSession
  /\ workerPc = "none"
  /\ text_to_play = << >>
  /\ mode_speed_pattern = << >>
  /\ nextIndex = 1
  /\ sound_signal = << >>
  /\ buffers = NoBuffers
  /\ char_now = 0
  /\ appended = << >>
  /\ result = "none"
  /\ startPc = "none"
  /\ endPc = "none"
  /\ startNotified = FALSE
  /\ endNotified = FALSE
  /\ timerFired = FALSE
  /\ notifyCount = 0
  /\ startCalls = 0
  /\ endCalls = 0
  /\ timerFirst = FALSE
  /\ stopReturned = FALSE
  /\ stoppedMidStream = FALSE
  /\ query = NoQuery

\* AudioPlayer::new
Init ==
  /\ text = << >>
  /\ text_additions = "Training"
  /\ playing_started_callback = FALSE
  /\ playing_ended_callback = FALSE
  /\ actions_length = DefaultActionsLength
  /\ text_type = "Letters"
  /\ min_speed = DefaultMinSpeed
  /\ max_speed = DefaultMaxSpeed
  /\ speed_modification_type = "None"
  /\ modification_len = DefaultModificationLen
  /\ NoPlayback

(***************************************************************************)
(* The caller's thread.  AudioPlayer is neither Send nor Sync, so play(),  *)
(* stop(), the setters and the two local tasks all run on one thread: a    *)
(* call starts only when that thread is in no other call.                  *)
(***************************************************************************)
\* no play() in progress: the &mut self setters can be called
NotPlaying == playPc \in {"idle", "returned"} /\ stopPc = "idle"

\* the thread is free for a &self call: play() is not running or is suspended
\* at local.await
CallerFree == playPc \in {"idle", "awaiting", "returned"} /\ stopPc = "idle"

set_text(t) ==
  /\ NotPlaying
  /\ text' = t
  /\ UNCHANGED << text_additions, playing_started_callback, playing_ended_callback,
                  actions_length, stop_flag, sinkVars, playPc, stopPc, session,
                  workerPc, workerLocals, result, taskVars, historyVars, profileVars, query >>

set_text_additions(a) ==
  /\ NotPlaying
  /\ text_additions' = a
  /\ UNCHANGED << text, playing_started_callback, playing_ended_callback,
                  actions_length, stop_flag, sinkVars, playPc, stopPc, session,
                  workerPc, workerLocals, result, taskVars, historyVars, profileVars, query >>

connect_main_text_started_callback ==
  /\ NotPlaying
  /\ playing_started_callback' = TRUE
  /\ UNCHANGED << text, text_additions, playing_ended_callback,
                  actions_length, stop_flag, sinkVars, playPc, stopPc, session,
                  workerPc, workerLocals, result, taskVars, historyVars, profileVars, query >>

connect_playing_ended_callback ==
  /\ NotPlaying
  /\ playing_ended_callback' = TRUE
  /\ UNCHANGED << text, text_additions, playing_started_callback,
                  actions_length, stop_flag, sinkVars, playPc, stopPc, session,
                  workerPc, workerLocals, result, taskVars, historyVars, profileVars, query >>

set_delay(delay) ==
  /\ CallerFree
  /\ actions_length' = SetDelayTable(actions_length, delay)
  /\ UNCHANGED << text, text_additions, playing_started_callback,
                  playing_ended_callback, stop_flag, sinkVars, playPc, stopPc,
                  session, workerPc, workerLocals, result, taskVars, historyVars, profileVars, query >>

\* chunks a former session left in the sink are no longer this session's; what
\* they hold is never read again, only their number is (sink.len())
Disown(chunks) == [k \in 1..Len(chunks) |-> [own |-> FALSE, signal |-> << >>]]

\* play(), lines 189 and 204-208, and get_start_part_duration, lines 142-147:
\* the speed the preamble and the first symbols are played at
StartSpeed(modification, speed, min, max) ==
  CASE modification \in {"Speedup", "Zigzag"} -> min
    [] modification = "Slowing" -> max
    [] OTHER -> speed

\* play(), lines 183-208: the locals are captured, the flag is reset
PlayBegin ==
  /\ NotPlaying
  /\ playPc' = "sink_play"
  /\ session' = [text |-> text, text_type |-> text_type,
                 speed |-> StartSpeed(speed_modification_type, DefaultSpeed,
                                      min_speed, max_speed),
                 min_speed |-> min_speed, max_speed |-> max_speed,
                 speed_modification_type |-> speed_modification_type,
                 modification_len |-> modification_len,
                 additions |-> text_additions,
                 start_callback |-> playing_started_callback,
                 end_callback |-> playing_ended_callback,
                 actions_length |-> actions_length]
  /\ stop_flag' = FALSE
  /\ sink' = Disown(sink)
  /\ startPc' = "none"
  /\ endPc' = "none"
  /\ startNotified' = FALSE
  /\ endNotified' = FALSE
  /\ timerFired' = FALSE
  /\ startCalls' = 0
  /\ endCalls' = 0
  /\ timerFirst' = FALSE
  /\ stopReturned' = FALSE
  /\ stoppedMidStream' = FALSE
  /\ UNCHANGED << configVars, query, sinkPaused, sinkLock, sinkPoisoned, stopPc, workerPc,
                  workerLocals, result, notifyCount >>

\* play(), lines 202-257: sink.lock().unwrap().play(), which waits for the
\* lock a former worker may still hold; then the worker thread and the two
\* tasks are spawned
PlaySpawn ==
  /\ playPc = "sink_play"
  /\ sinkLock = "free"
  /\ ~sinkPoisoned
  /\ sinkPaused' = FALSE
  /\ workerPc' = "spawned"
  /\ result' = "none"
  /\ notifyCount' = 0
  /\ startPc' = "spawned"
  /\ endPc' = "spawned"
  /\ playPc' = "poll_start"
  /\ UNCHANGED << configVars, query, stop_flag, sink, sinkLock, sinkPoisoned, stopPc, session,
                  workerLocals, startNotified, endNotified, timerFired,
                  startCalls, endCalls, timerFirst, stopReturned, stoppedMidStream >>

\* first poll of the start task (243-250): without a callback it ends, with
\* one it creates the Notified future and the sleep timer of the select
StartTaskPoll ==
  /\ playPc = "poll_start"
  /\ startPc = "spawned"
  /\ startPc' = IF session.start_callback THEN "waiting" ELSE "done"
  /\ playPc' = "poll_end"
  /\ UNCHANGED << configVars, query, stop_flag, sinkVars, stopPc, session, workerPc,
                  workerLocals, result, endPc, startNotified, endNotified, timerFired,
                  historyVars >>

\* first poll of the end task (252-253): it creates the Notified future and
\* awaits it; play() is then suspended at local.await (259)
EndTaskPoll ==
  /\ playPc = "poll_end"
  /\ endPc = "spawned"
  /\ endPc' = "waiting"
  /\ playPc' = "awaiting"
  /\ UNCHANGED << configVars, query, stop_flag, sinkVars, stopPc, session, workerPc,
                  workerLocals, result, startPc, startNotified, endNotified, timerFired,
                  historyVars >>

\* the sleep of the start task elapses
TimerElapse ==
  /\ startPc = "waiting"
  /\ ~timerFired
  /\ timerFired' = TRUE
  /\ timerFirst' = (notifyCount = 0)
  /\ UNCHANGED << configVars, query, stop_flag, sinkVars, playPc, stopPc, session, workerPc,
                  workerLocals, result, startPc, endPc, startNotified, endNotified,
                  notifyCount, startCalls, endCalls, stopReturned,
                  stoppedMidStream >>

\* the select of the start task completes (245-248): with one branch ready that
\* branch runs, with both ready either may; by_timer is the branch taken
StartTaskResume(by_timer) ==
  /\ playPc = "awaiting"
  /\ stopPc = "idle"
  /\ startPc = "waiting"
  /\ IF by_timer THEN timerFired ELSE startNotified
  /\ startPc' = "done"
  /\ startCalls' = IF by_timer THEN startCalls + 1 ELSE startCalls
  /\ UNCHANGED << configVars, query, stop_flag, sinkVars, playPc, stopPc, session, workerPc,
                  workerLocals, result, endPc, startNotified, endNotified, timerFired,
                  notifyCount, endCalls, timerFirst, stopReturned,
                  stoppedMidStream >>

\* the end task is woken (253-256) and calls the callback if there is one
EndTaskResume ==
  /\ playPc = "awaiting"
  /\ stopPc = "idle"
  /\ endPc = "waiting"
  /\ endNotified
  /\ endPc' = "done"
  /\ endCalls' = IF session.end_callback THEN endCalls + 1 ELSE endCalls
  /\ UNCHANGED << configVars, query, stop_flag, sinkVars, playPc, stopPc, session, workerPc,
                  workerLocals, result, startPc, startNotified, endNotified, timerFired,
                  notifyCount, startCalls, timerFirst, stopReturned,
                  stoppedMidStream >>

\* local.await completes when both tasks have ended (259-260)
PlayReturn ==
  /\ playPc = "awaiting"
  /\ stopPc = "idle"
  /\ startPc = "done"
  /\ endPc = "done"
  /\ playPc' = "returned"
  /\ UNCHANGED << configVars, query, stop_flag, sinkVars, stopPc, session, workerPc,
                  workerLocals, result, taskVars, historyVars >>

\* the worker is at a flush point of the symbol loop
Streaming == workerPc \in {"flush_len", "flush_flag", "append"}

\* stop(), line 263
StopSetFlag ==
  /\ CallerFree
  /\ stop_flag' = TRUE
  /\ stopPc' = "locking"
  /\ stoppedMidStream' = (stoppedMidStream \/ Streaming)
  /\ UNCHANGED << configVars, query, sinkVars, playPc, session, workerPc, workerLocals,
                  result, taskVars, notifyCount, startCalls, endCalls, timerFirst,
                  stopReturned >>

\* stop(), line 264: sink.lock().unwrap().clear(); the lock is taken when it
\* is free, unwrap panics on a poisoned lock, clear empties and pauses the sink
StopClear ==
  /\ stopPc = "locking"
  /\ sinkLock = "free"
  /\ IF sinkPoisoned
       THEN /\ stopPc' = "panicked"
            /\ UNCHANGED << sink, sinkPaused, stopReturned >>
       ELSE /\ stopPc' = "idle"
            /\ sink' = << >>
            /\ sinkPaused' = TRUE
            /\ stopReturned' = TRUE
  /\ UNCHANGED << configVars, query, stop_flag, sinkLock, sinkPoisoned, playPc, session,
                  workerPc, workerLocals, result, taskVars, notifyCount, startCalls,
                  endCalls, timerFirst, stoppedMidStream >>

(***************************************************************************)
(* The worker thread (214-241) and play_audio (390-455)                    *)
(***************************************************************************)
\* the symbol loop from symbol i on: it stops at the next flush point, where
\* the worker enters the flush loop, or there is no symbol left and the worker
\* enters the drain loop
FillFrom(i, sig, bufs, cn, txt, pattern, table) ==
  IF i > Len(txt)
    THEN [pc |-> "drain_len", i |-> i, sound_signal |-> sig, buffers |-> bufs,
          char_now |-> cn]
    ELSE CHOOSE f \in
           { [pc |-> IF r.st.panicked THEN "panicked" ELSE "flush_len",
              i |-> r.i + 1, sound_signal |-> r.st.sound_signal,
              buffers |-> r.st.buffers, char_now |-> r.st.char_now] :
             r \in { FillLoop([sound_signal |-> sig, buffers |-> bufs, char_now |-> cn,
                               speed_to_use |-> bufs["."].unit, panicked |-> FALSE],
                              txt, i, session.text_type, pattern, table) } } : TRUE

\* lines 215-228 and 392-434: the thread takes the sink lock for its whole
\* life, builds text_to_play, generates the five buffers and runs the symbol
\* loop up to the first flush point.  A panic of gen_audio_prev_vec or of the
\* index speed_pattern[char_now] unwinds the thread and poisons the lock.
WorkerStart ==
  /\ workerPc = "spawned"
  /\ sinkLock = "free"
  /\ \E enc \in { gen_audio_prev_vec(session.text, session.min_speed,
                                     session.max_speed,
                                     session.speed_modification_type,
                                     session.modification_len) } :
     \E table \in { SessionActionsLength(session.actions_length, actions_length) } :
       IF enc.panicked
         THEN /\ workerPc' = "panicked"
              /\ sinkPoisoned' = TRUE
              /\ UNCHANGED << sinkLock, workerLocals >>
         ELSE \E txt \in { TextToPlay(session.additions, session.text_type,
                                      session.speed, enc.audio_vec) } :
              \E bufs \in { MakeBuffers(get_speed_from_text_type(session.text_type,
                                                                 session.speed),
                                        table) } :
              \E f \in { FillFrom(1, << >>, bufs, 0, txt, enc.speed_pattern, table) } :
                IF f.pc = "panicked"
                  THEN /\ workerPc' = "panicked"
                       /\ sinkPoisoned' = TRUE
                       /\ UNCHANGED << sinkLock, workerLocals >>
                  ELSE /\ workerPc' = f.pc
                       /\ sinkLock' = "worker"
                       /\ text_to_play' = txt
                       /\ mode_speed_pattern' = enc.speed_pattern
                       /\ nextIndex' = f.i
                       /\ sound_signal' = f.sound_signal
                       /\ buffers' = f.buffers
                       /\ char_now' = f.char_now
                       /\ appended' = << >>
                       /\ UNCHANGED sinkPoisoned
  /\ UNCHANGED << configVars, query, stop_flag, sink, sinkPaused, playPc, stopPc, session,
                  result, taskVars, historyVars >>

\* flush loop, line 436: sink.len() is read
FlushCheckLen ==
  /\ workerPc = "flush_len"
  /\ workerPc' = IF FlushMayAppend(Len(sink)) THEN "append" ELSE "flush_flag"
  /\ UNCHANGED << configVars, query, stop_flag, sinkVars, playPc, stopPc, session,
                  workerLocals, result, taskVars, historyVars >>

\* the `return` of the flush loop leaving the thread instead of play_audio
FlushCheckFlag_LeavesThread ==
  /\ workerPc = "flush_flag"
  /\ IF stop_flag
       THEN workerPc' = "unlock" /\ result' = "Cancelled"
       ELSE workerPc' = "flush_len" /\ UNCHANGED result
  /\ UNCHANGED << configVars, query, stop_flag, sinkVars, playPc, stopPc, session,
                  workerLocals, taskVars, historyVars >>

\* flush loop, lines 439-442: the flag is read; set, play_audio returns, clear,
\* the thread sleeps and reads the length again
FlushCheckFlag ==
  /\ workerPc = "flush_flag"
  /\ IF stop_flag
       THEN workerPc' = "notify" /\ result' = "Cancelled"
       ELSE workerPc' = "flush_len" /\ UNCHANGED result
  /\ UNCHANGED << configVars, query, stop_flag, sinkVars, playPc, stopPc, session,
                  workerLocals, taskVars, historyVars >>

\* lines 444-445 and the symbol loop up to the next flush point (401-434)
AppendChunk ==
  /\ workerPc = "append"
  /\ sink' = Append(sink, [own |-> TRUE, signal |-> sound_signal])
  /\ appended' = Append(appended, sound_signal)
  /\ \E f \in { FillFrom(nextIndex, << >>, buffers, char_now, text_to_play,
                         mode_speed_pattern,
                         SessionActionsLength(session.actions_length, actions_length)) } :
       IF f.pc = "panicked"
         THEN /\ workerPc' = "panicked"
              /\ sinkPoisoned' = TRUE
              /\ sinkLock' = "free"
              /\ UNCHANGED << nextIndex, sound_signal, buffers, char_now >>
         ELSE /\ workerPc' = f.pc
              /\ nextIndex' = f.i
              /\ sound_signal' = f.sound_signal
              /\ buffers' = f.buffers
              /\ char_now' = f.char_now
              /\ UNCHANGED << sinkPoisoned, sinkLock >>
  /\ UNCHANGED << configVars, query, stop_flag, sinkPaused, playPc, stopPc, session,
                  text_to_play, mode_speed_pattern, result, taskVars, historyVars >>

\* drain loop, line 449: sink.len() is read
DrainCheckLen ==
  /\ workerPc = "drain_len"
  /\ IF DrainGoesOn(Len(sink))
       THEN workerPc' = "drain_flag" /\ UNCHANGED result
       ELSE workerPc' = "notify" /\ result' = "Done"
  /\ UNCHANGED << configVars, query, stop_flag, sinkVars, playPc, stopPc, session,
                  workerLocals, taskVars, historyVars >>

\* the drain loop without its flag check
DrainCheckFlag_NoCheck ==
  /\ workerPc = "drain_flag"
  /\ workerPc' = "drain_len"
  /\ UNCHANGED << configVars, query, stop_flag, sinkVars, playPc, stopPc, session,
                  workerLocals, result, taskVars, historyVars >>

\* drain loop, lines 450-453: the flag is read
DrainCheckFlag ==
  /\ workerPc = "drain_flag"
  /\ IF stop_flag
       THEN workerPc' = "notify" /\ result' = "Cancelled"
       ELSE workerPc' = "drain_len" /\ UNCHANGED result
  /\ UNCHANGED << configVars, query, stop_flag, sinkVars, playPc, stopPc, session,
                  workerLocals, taskVars, historyVars >>

\* Notify::notify_waiters: every Notified future that exists is completed, no
\* permit is kept for one created later
NotifyWaiters(pc, notified) == notified \/ pc = "waiting"

\* line 240
WorkerNotify ==
  /\ workerPc = "notify"
  /\ workerPc' = "unlock"
  /\ startNotified' = NotifyWaiters(startPc, startNotified)
  /\ endNotified' = NotifyWaiters(endPc, endNotified)
  /\ notifyCount' = notifyCount + 1
  /\ UNCHANGED << configVars, query, stop_flag, sinkVars, playPc, stopPc, session,
                  workerLocals, result, startPc, endPc, timerFired, startCalls,
                  endCalls, timerFirst, stopReturned, stoppedMidStream >>

\* line 241: the closure ends, its locals and the lock guard are dropped
WorkerExit ==
  /\ workerPc = "unlock"
  /\ workerPc' = "done"
  /\ sinkLock' = "free"
  /\ text_to_play' = << >>
  /\ mode_speed_pattern' = << >>
  /\ nextIndex' = 1
  /\ sound_signal' = << >>
  /\ buffers' = NoBuffers
  /\ char_now' = 0
  /\ appended' = << >>
  /\ UNCHANGED << configVars, query, stop_flag, sink, sinkPaused, sinkPoisoned, playPc, stopPc,
                  session, result, taskVars, historyVars >>

(***************************************************************************)
(* The sink's consumer                                                     *)
(***************************************************************************)
\* the output stream finishes the chunk it is playing; a paused sink plays
\* nothing
SinkDrain ==
  /\ ~sinkPaused
  /\ sink # << >>
  /\ sink' = Tail(sink)
  /\ UNCHANGED << configVars, query, stop_flag, sinkPaused, sinkLock, sinkPoisoned, playPc,
                  stopPc, session, workerPc, workerLocals, result, taskVars,
                  historyVars >>

(***************************************************************************)
(* Specifications                                                          *)
(***************************************************************************)
Caller ==
  \/ \E t \in Texts : set_text(t)
  \/ \E a \in Additions : set_text_additions(a)
  \/ connect_main_text_started_callback
  \/ connect_playing_ended_callback
  \/ \E d \in Delays : set_delay(d)
  \/ PlayBegin
  \/ PlaySpawn
  \/ StartTaskPoll
  \/ EndTaskPoll
  \/ \E by_timer \in BOOLEAN : StartTaskResume(by_timer)
  \/ EndTaskResume
  \/ PlayReturn
  \/ StopSetFlag
  \/ StopClear

Worker ==
  \/ WorkerStart
  \/ FlushCheckLen
  \/ FlushCheckFlag
  \/ AppendChunk
  \/ DrainCheckLen
  \/ DrainCheckFlag
  \/ WorkerNotify
  \/ WorkerExit

Next == Caller \/ Worker \/ TimerElapse \/ SinkDrain

Spec == Init /\ [][Next]_vars

\* The worker is a thread of its own: it takes every step it can take.
WorkerFairSpec == Spec /\ WF_vars(Worker)

\* The worker runs, the runtime polls a woken task and resumes a blocked call,
\* a timer that was started elapses, a playing sink plays.  The calls of the
\* API are the caller's choice.
FairSpec ==
  /\ Spec
  /\ WF_vars(Worker)
  /\ WF_vars(PlaySpawn)
  /\ WF_vars(StartTaskPoll)
  /\ WF_vars(EndTaskPoll)
  /\ WF_vars(\E by_timer \in BOOLEAN : StartTaskResume(by_timer))
  /\ WF_vars(EndTaskResume)
  /\ WF_vars(PlayReturn)
  /\ WF_vars(StopClear)
  /\ WF_vars(TimerElapse)
  /\ WF_vars(SinkDrain)

(***************************************************************************)
(* The symbol sequence of a text: gen_audio_prev_vec applied to the        *)
(* configuration of a player no play() was called on.                      *)
(***************************************************************************)
playbackVars ==
  << stop_flag, sinkVars, playPc, stopPc, session, workerPc, workerLocals, result,
     taskVars, historyVars >>

\* a player after set_text, set_modification, set_modification_length,
\* set_min_speed and set_max_speed
PreviewInit ==
  /\ text \in PreviewTexts
  /\ speed_modification_type \in Modifications
  /\ modification_len \in Windows
  /\ \E range \in SpeedRanges : min_speed = range[1] /\ max_speed = range[2]
  /\ text_additions = "Training"
  /\ playing_started_callback = FALSE
  /\ playing_ended_callback = FALSE
  /\ actions_length = DefaultActionsLength
  /\ text_type = "Letters"
  /\ NoPlayback

\* the call of gen_audio_prev_vec in get_text_duration (136), in
\* get_char_timings (154) and in the worker (217); a panic leaves no value
Preview ==
  /\ \E enc \in { gen_audio_prev_vec(text, min_speed, max_speed, speed_modification_type,
                                     modification_len) } :
       query' = IF enc.panicked
                  THEN [kind |-> "preview", panicked |-> TRUE]
                  ELSE [kind |-> "preview", panicked |-> FALSE,
                        speed_pattern |-> enc.speed_pattern,
                        text_preview |-> enc.audio_vec]
  /\ UNCHANGED << configVars, playbackVars >>

PreviewNext == Preview

PreviewSpec == PreviewInit /\ [][PreviewNext]_vars

(***************************************************************************)
(* The durations of a text: get_text_duration and get_char_timings on the  *)
(* configuration of a player no play() was called on.                      *)
(***************************************************************************)
\* a player after set_text, set_modification, set_modification_length and
\* set_delay
TimingInit ==
  /\ text \in TimingTexts
  /\ speed_modification_type \in Modifications
  /\ modification_len \in {0, 1}
  /\ actions_length \in TimingTables
  /\ min_speed = DefaultMinSpeed
  /\ max_speed = DefaultMaxSpeed
  /\ text_additions = "Training"
  /\ playing_started_callback = FALSE
  /\ playing_ended_callback = FALSE
  /\ text_type = "Letters"
  /\ NoPlayback

\* what both queries compute (136-137, 154-155); a panic of either function
\* unwinds the call
TextTimings ==
  CHOOSE r \in
    { IF enc.panicked THEN [panicked |-> TRUE, in |-> "gen_audio_prev_vec"]
      ELSE CHOOSE q \in
             { [panicked |-> t.panicked, in |-> "get_time_and_timings",
                speed_pattern |-> enc.speed_pattern,
                text_preview |-> enc.audio_vec, text_time |-> t.duration,
                time_pattern |-> t.time_pattern_vec, char_now |-> t.char_now] :
               t \in { get_time_and_timings(enc.audio_vec, text_type, DefaultSpeed,
                                            enc.speed_pattern, actions_length) } } : TRUE :
      enc \in { gen_audio_prev_vec(text, min_speed, max_speed, speed_modification_type,
                                   modification_len) } } : TRUE

\* get_text_duration returns text_time
get_text_duration ==
  /\ CallerFree
  /\ \E t \in { TextTimings } :
       query' = IF t.panicked
                  THEN [kind |-> "get_text_duration", panicked |-> TRUE, in |-> t.in]
                  ELSE [kind |-> "get_text_duration", panicked |-> FALSE,
                        speed_pattern |-> t.speed_pattern,
                        text_preview |-> t.text_preview,
                        char_now |-> t.char_now,
                        text_time |-> t.text_time]
  /\ UNCHANGED << configVars, playbackVars >>

\* get_char_timings returns time_pattern
get_char_timings ==
  /\ CallerFree
  /\ \E t \in { TextTimings } :
       query' = IF t.panicked
                  THEN [kind |-> "get_char_timings", panicked |-> TRUE, in |-> t.in]
                  ELSE [kind |-> "get_char_timings", panicked |-> FALSE,
                        speed_pattern |-> t.speed_pattern,
                        text_preview |-> t.text_preview,
                        char_now |-> t.char_now,
                        text_time |-> t.text_time,
                        time_pattern |-> t.time_pattern]
  /\ UNCHANGED << configVars, playbackVars >>

TimingNext == get_text_duration \/ get_char_timings

TimingSpec == TimingInit /\ [][TimingNext]_vars

(***************************************************************************)
(* Properties                                                              *)
(***************************************************************************)
\* the worker is inside play_audio, at a flush point or in the drain loop
InPlayAudio == workerPc \in {"flush_len", "flush_flag", "append", "drain_len", "drain_flag"}

\* the chunks of the running session that are pending in the sink
OwnChunks == { k \in 1..Len(sink) : sink[k].own }

\* C1: a step that appends a chunk to the sink starts from a sink with at most
\* SINK_BUFFER_SIZE pending chunks, so the sink never holds more than
\* SINK_BUFFER_SIZE + 1 chunks, of this session or of any
C1_Backpressure ==
  /\ [][Len(sink') > Len(sink) => Len(sink) <= SINK_BUFFER_SIZE]_vars
  /\ [](Len(sink) <= SINK_BUFFER_SIZE + 1)
  /\ [](Cardinality(OwnChunks) <= SINK_BUFFER_SIZE + 1)

\* the scheduler polls at a flush point behind a sink that holds four chunks
\* of its session
C1_Witness ==
  /\ workerPc = "flush_flag"
  /\ Cardinality(OwnChunks) = SINK_BUFFER_SIZE + 1

\* C2: once stop() has set the cancellation flag while the scheduler was
\* streaming, no flush point the scheduler comes to decides to append, whatever
\* the number of pending chunks it reads there
C2_NoAppendAfterCancel ==
  [][(stop_flag /\ stoppedMidStream /\ workerPc = "flush_len") => workerPc' # "append"]_vars

\* C3: once the cancellation flag is set while the scheduler is in play_audio,
\* the scheduler returns, as Done or as Cancelled, by the worker's steps alone
C3_CancellationTerminates ==
  (stop_flag /\ InPlayAudio) ~> (~InPlayAudio /\ result \in {"Done", "Cancelled"})

\* the scheduler returned as Cancelled while the sink, emptied by nobody, still
\* held chunks
C3_Witness ==
  /\ stop_flag
  /\ workerPc = "notify"
  /\ result = "Cancelled"
  /\ sink # << >>

\* C4: a stop() call that has set the flag while the worker is streaming or
\* draining can clear the sink and return at once, with no step of the worker
C4_StopDoesNotWait ==
  (stopPc = "locking" /\ InPlayAudio) => ENABLED StopClear

\* C5: once a stop() call of the session has returned and the worker has
\* finished, no chunk of the session is pending in the sink
C5_StopDiscards ==
  (stopReturned /\ workerPc = "done") => OwnChunks = {}

\* C6: once the worker's streaming loop has exited, play() returns, and it
\* has not returned before the ended signal was sent
C6_PlayCompletes ==
  /\ (result \in {"Done", "Cancelled"}) ~> (playPc = "returned")
  /\ [](playPc = "returned" => notifyCount >= 1)

\* C7: the ended signal is sent at most once in a session, only after
\* play_audio has exited as Done or as Cancelled, and a worker that has
\* finished has sent it exactly once
C7_EndedOnceAfterLoop ==
  /\ notifyCount <= 1
  /\ notifyCount = 1 => (workerPc \in {"unlock", "done"} /\ result \in {"Done", "Cancelled"})
  /\ workerPc \in {"unlock", "done"} => notifyCount = 1
  /\ InPlayAudio => notifyCount = 0

\* a cancelled worker has finished and has sent the signal once
C7_Witness ==
  /\ workerPc = "done"
  /\ result = "Cancelled"
  /\ notifyCount = 1

\* C8: with an end callback registered, the callback is invoked exactly once
\* after the ended signal was sent, whenever the end task subscribed
C8_EndCallbackOnce ==
  /\ (session.end_callback /\ notifyCount = 1) ~> (endCalls = 1)
  /\ [](endCalls <= 1)
  /\ [](endCalls = 1 => notifyCount = 1)

\* C9: the start callback is invoked at most once in a session, and only when
\* the timer elapsed before the ended signal was sent
C9_StartOnlyIfTimerFirst ==
  /\ startCalls <= 1
  /\ startCalls = 1 => timerFirst

\* every sound of sig lasts what the session's table gives its symbol
UsesSessionTable(sig) ==
  \A k \in 1..Len(sig) : sig[k].mult = session.actions_length[sig[k].el][2]

\* C10: the table of a session is the player's table at the play() call, and
\* the buffers the worker holds, the signal it accumulates and the chunks it
\* has appended all have the durations of that table, whatever set_delay has
\* made of the player's table since
C10_SnapshotIsolation ==
  /\ playPc = "sink_play" => session.actions_length = actions_length
  /\ (InPlayAudio \/ workerPc = "notify") =>
        /\ UsesSessionTable(sound_signal)
        /\ \A e \in Sounds : buffers[e].mult = session.actions_length[e][2]
  /\ \A k \in OwnChunks : UsesSessionTable(sink[k].signal)

\* set_delay has changed the word gap of the player's table during the
\* session, and a chunk appended after that holds a word gap of the old length
C10_Witness ==
  /\ actions_length["/"] # session.actions_length["/"]
  /\ workerPc = "append"
  /\ \E k \in 1..Len(sound_signal) :
        /\ sound_signal[k].el = "/"
        /\ sound_signal[k].mult # actions_length["/"][2]

(***************************************************************************)
(* Properties of the symbol sequence and of the durations                  *)
(***************************************************************************)
\* the number of places of seq that hold c
CountOf(seq, c) == Cardinality({ k \in DOMAIN seq : seq[k] = c })

\* the non-space characters of the player's text
NonSpaces == { k \in DOMAIN text : text[k] # " " }

\* what a play() of the player's configuration streams, played through
PlayedThrough(speed_pattern, text_preview) ==
  LET speed == StartSpeed(speed_modification_type, DefaultSpeed, min_speed, max_speed)
  IN  PlayThrough(TextToPlay(text_additions, text_type, speed, text_preview),
                  text_type, speed, speed_pattern, actions_length)

\* C11: the speed profile the encoder returns has exactly as many entries as
\* the symbol sequence has SpeedMarker symbols; the timing calculator and the
\* scheduler read every entry and never read past the last one
C11_ProfileMatchesMarkers ==
  query.kind # "none" =>
    /\ query.panicked => query.in = "gen_audio_prev_vec"
    /\ ~query.panicked =>
         /\ Len(query.speed_pattern) = CountOf(query.text_preview, "|")
         /\ query.char_now = Len(query.speed_pattern)
         /\ LET p == PlayedThrough(query.speed_pattern, query.text_preview)
            IN  ~p.panicked /\ p.char_now = Len(query.speed_pattern)

\* a profile with the entry a word gap at the start of a window adds to the
\* entries of the characters
C11_Witness ==
  /\ query.kind # "none"
  /\ ~query.panicked
  /\ speed_modification_type # "None"
  /\ Len(query.speed_pattern) > Cardinality(NonSpaces)

\* the pieces of seq between the places that hold sep
RECURSIVE SplitAt(_, _)
SplitAt(seq, sep) ==
  IF \A k \in DOMAIN seq : seq[k] # sep THEN << seq >>
  ELSE LET k == CHOOSE j \in DOMAIN seq :
                  seq[j] = sep /\ \A i \in 1..(j - 1) : seq[i] # sep
       IN  << SubSeq(seq, 1, k - 1) >> \o SplitAt(SubSeq(seq, k + 1, Len(seq)), sep)

\* the character whose entry of the Morse table is code
LetterOf(code) ==
  IF \E c \in DOMAIN morse : morse[c] = code
    THEN CHOOSE c \in DOMAIN morse : morse[c] = code
    ELSE "no character"

\* a word's characters: the Dot/Dash groups between CharacterGaps, the
\* IntraGaps dropped, looked up in the table
DecodeWord(word) ==
  LET groups == SplitAt(word, "$")
  IN  [k \in DOMAIN groups |-> LetterOf(SelectSeq(groups[k], LAMBDA sym : sym # "*"))]

RECURSIVE JoinWords(_)
JoinWords(words) ==
  IF Len(words) = 1 THEN words[1]
  ELSE words[1] \o << " " >> \o JoinWords(Tail(words))

Decode(audio_vec) ==
  IF audio_vec = << >> THEN << >>
  ELSE LET words == SplitAt(audio_vec, "/")
       IN  JoinWords([k \in DOMAIN words |-> DecodeWord(words[k])])

\* supported characters, single spaces between words, none at either end
WellSpaced(t) ==
  /\ \A k \in DOMAIN t : t[k] \in DOMAIN morse \cup {" "}
  /\ t # << >> => t[1] # " " /\ t[Len(t)] # " "
  /\ \A k \in 1..(Len(t) - 1) : ~(t[k] = " " /\ t[k + 1] = " ")

\* the symbol sequence of the player's text has been computed
Previewed == query.kind = "preview"

\* C12: with modification None, the symbol sequence of a text of supported
\* characters with single spaces between words and none at either end decodes
\* to that text: split at WordGaps into words, at CharacterGaps into
\* characters, IntraGaps dropped, each Dot/Dash group looked up in the table
C12_RoundTrip ==
  (Previewed /\ speed_modification_type = "None" /\ WellSpaced(text)) =>
    /\ ~query.panicked
    /\ Decode(query.text_preview) = text

\* the sequence of a text of two words, one of them of several characters
C12_Witness ==
  /\ Previewed
  /\ speed_modification_type = "None"
  /\ WellSpaced(text)
  /\ text = << "T", "E", " ", "E" >>
  /\ ~query.panicked

\* group is the code with exactly one IntraGap between consecutive tones
IsCodeWithIntraGaps(group, code) ==
  /\ Len(group) = 2 * Len(code) - 1
  /\ \A j \in DOMAIN group :
       group[j] = IF j % 2 = 1 THEN code[(j + 1) \div 2] ELSE "*"

\* C13: with modification None, the symbol sequence of a text of supported
\* non-space characters is, character by character, the character's Dot/Dash
\* sequence with one IntraGap between consecutive tones, exactly one
\* CharacterGap between consecutive characters and no gap at either end;
\* "SOS" gives ...$---$... with the IntraGaps between the tones
C13_StructureWithoutSpaces ==
  (/\ Previewed
   /\ speed_modification_type = "None"
   /\ \A k \in DOMAIN text : text[k] \in DOMAIN morse) =>
    /\ ~query.panicked
    /\ text = << >> => query.text_preview = << >>
    /\ text # << >> =>
         LET groups == SplitAt(query.text_preview, "$")
         IN  /\ Len(groups) = Len(text)
             /\ \A k \in DOMAIN groups : IsCodeWithIntraGaps(groups[k], morse[text[k]])
    /\ text = << "S", "O", "S" >> =>
         query.text_preview =
           << ".", "*", ".", "*", ".", "$", "-", "*", "-", "*", "-", "$",
              ".", "*", ".", "*", "." >>

\* the sequence of "SOS"
C13_Witness ==
  /\ Previewed
  /\ speed_modification_type = "None"
  /\ text = << "S", "O", "S" >>
  /\ ~query.panicked

\* the speed_pattern entries of the characters, in order: those of the
\* SpeedMarkers a tone follows; the others are the entries of word gaps
CharEntries(speed_pattern, audio_vec) ==
  LET markers == SelectSeq([k \in DOMAIN audio_vec |-> k], LAMBDA k : audio_vec[k] = "|")
      ofChar == SelectSeq([j \in DOMAIN markers |-> j],
                          LAMBDA j : /\ markers[j] < Len(audio_vec)
                                     /\ audio_vec[markers[j] + 1] \in {".", "-"})
  IN  [j \in DOMAIN ofChar |-> speed_pattern[ofChar[j]]]

\* min + (max - min) / (N - 1) * (k mod N)
SpeedupValue(k, N) ==
  RatAdd(min_speed, RatScale(RatSub(max_speed, min_speed), k % N, N - 1))

\* C14: with modification Speedup and a window of N = modification_len * 5
\* characters, the k-th non-space character, k counted from 0 and spaces not
\* counted, gets the speed min + (max - min) / (N - 1) * (k mod N); with the
\* window length 2, min 100 and max 110 the characters 0, 9 and 10 get 100,
\* 110 and 100
C14_SpeedupCyclic ==
  (/\ Previewed
   /\ speed_modification_type = "Speedup"
   /\ modification_len >= 1
   /\ ~query.panicked) =>
    LET entries == CharEntries(query.speed_pattern, query.text_preview)
        N == modification_len * 5
    IN  /\ Len(entries) = Cardinality(NonSpaces)
        /\ \A k \in 0..(Len(entries) - 1) : RatEq(entries[k + 1], SpeedupValue(k, N))
        /\ (/\ modification_len = 2
            /\ min_speed = <<100, 1>>
            /\ max_speed = <<110, 1>>
            /\ Len(entries) >= 11) =>
             /\ RatEq(entries[1], <<100, 1>>)
             /\ RatEq(entries[10], <<110, 1>>)
             /\ RatEq(entries[11], <<100, 1>>)

\* eleven characters after a space, through a window of ten characters
C14_Witness ==
  /\ Previewed
  /\ speed_modification_type = "Speedup"
  /\ modification_len = 2
  /\ min_speed = <<100, 1>>
  /\ max_speed = <<110, 1>>
  /\ text = Repeat("E", 3) \o << " " >> \o Repeat("E", 8)
  /\ ~query.panicked
  /\ Len(CharEntries(query.speed_pattern, query.text_preview)) = 11

\* n / d rounded to the nearest integer, for n >= 0 and d > 0
RoundNearest(n, d) == (2 * n + d) \div (2 * d)

\* C15: the table holds, for the CharacterGap duration d that set_delay or
\* AudioPlayer::new has set, the WordGap duration round(d * 2.33), and every
\* other entry as AudioPlayer::new has set it; set_delay(3) leaves the
\* durations 3 and 7 of the new player
C15_SetDelayRounds ==
  /\ actions_length["/"] = << 1, RoundNearest(actions_length["$"][2] * 233, 100) >>
  /\ actions_length["$"][1] = 1
  /\ \A e \in DOMAIN actions_length \ {"$", "/"} :
       actions_length[e] = DefaultActionsLength[e]

\* the window of a ramp is shorter than two characters, or the half window of
\* a Zigzag ramp has the denominator 0
DegenerateWindow ==
  /\ speed_modification_type # "None"
  /\ \/ modification_len * 5 < 2
     \/ speed_modification_type = "Zigzag" /\ TruncDiv(modification_len * 5, 2) - 1 = 0

\* C16: with a degenerate window the encoder returns no symbol sequence and
\* no speed profile: the call fails
C16_DegenerateWindowRejected ==
  (Previewed /\ DegenerateWindow) => query.panicked

\* the SpeedMarkers before place i of the sequence
MarkersBefore(audio_vec, i) == Cardinality({ j \in 1..(i - 1) : audio_vec[j] = "|" })

\* the seconds of one unit after k SpeedMarkers: from the player's speed up to
\* and including the first SpeedMarker, from the k-th entry of the profile
\* after the k-th
UnitAfter(speed_pattern, k) ==
  RatNorm(get_speed_from_text_type(text_type,
                                   IF k = 0 THEN DefaultSpeed ELSE speed_pattern[k]))

\* the duration units of the symbols among the first i that come after exactly
\* k SpeedMarkers
UnitsAfter(audio_vec, i, k) ==
  LET count(e) == Cardinality({ j \in 1..i : /\ audio_vec[j] = e
                                             /\ MarkersBefore(audio_vec, j) = k })
  IN  actions_length["."][2] * count(".") + actions_length["-"][2] * count("-")
        + actions_length["*"][2] * count("*") + actions_length["$"][2] * count("$")
        + actions_length["/"][2] * count("/") + actions_length["|"][2] * count("|")

\* the sum of unit * duration units over the first i symbols, taken speed by
\* speed: the symbols after k SpeedMarkers, for k from 0 to upto
RECURSIVE CumulativeUpTo(_, _, _, _)
CumulativeUpTo(audio_vec, speed_pattern, i, upto) ==
  LET part == RatTimes(UnitAfter(speed_pattern, upto), UnitsAfter(audio_vec, i, upto))
  IN  IF upto = 0 THEN part
      ELSE RatPlus(CumulativeUpTo(audio_vec, speed_pattern, i, upto - 1), part)

Cumulative(audio_vec, speed_pattern, i) ==
  CumulativeUpTo(audio_vec, speed_pattern, i, MarkersBefore(audio_vec, i + 1))

\* C17: the total duration get_text_duration returns is the sum, over the
\* symbols of the encoder's sequence, of the symbol's duration units times the
\* unit in force at the symbol: that of the player's speed up to and including
\* the first SpeedMarker, that of the k-th profile entry after the k-th
\* SpeedMarker
C17_TimingTotal ==
  (query.kind = "get_text_duration" /\ ~query.panicked) =>
    RatEq(query.text_time,
          Cumulative(query.text_preview, query.speed_pattern, Len(query.text_preview)))

\* the total of a text of two words played at more than one speed
C17_Witness ==
  /\ query.kind = "get_text_duration"
  /\ ~query.panicked
  /\ \E j, k \in DOMAIN query.speed_pattern :
       ~RatEq(query.speed_pattern[j], query.speed_pattern[k])
  /\ CountOf(query.text_preview, "/") >= 1
  /\ ~RatLeq(query.text_time, <<0, 1>>)

\* the places of the CharacterGaps and WordGaps, in order
GapPlaces(audio_vec) ==
  SelectSeq([k \in DOMAIN audio_vec |-> k], LAMBDA k : audio_vec[k] \in {"$", "/"})

\* C18: the list get_char_timings returns starts with 0 and then holds, for
\* each CharacterGap and WordGap in order and for no other symbol, the
\* cumulative duration up to and including that gap, in the whole
\* milliseconds of a Duration; it has one entry more than there are gaps, is
\* non-decreasing, and no entry exceeds the total duration
C18_Checkpoints ==
  (query.kind = "get_char_timings" /\ ~query.panicked) =>
    LET gaps == GapPlaces(query.text_preview)
        cp == query.time_pattern
    IN  /\ Len(cp) = 1 + Len(gaps)
        /\ cp[1] = 0
        /\ \A j \in DOMAIN gaps :
             cp[j + 1] = MillisOf(Cumulative(query.text_preview, query.speed_pattern,
                                             gaps[j]))
        /\ \A j \in 1..(Len(cp) - 1) : cp[j] <= cp[j + 1]
        /\ \A j \in DOMAIN cp : RatLeq(<< cp[j], 1000 >>, query.text_time)

\* the checkpoints of a text with a CharacterGap and a WordGap of a positive
\* duration, the last one before the end of the text
C18_Witness ==
  /\ query.kind = "get_char_timings"
  /\ ~query.panicked
  /\ CountOf(query.text_preview, "$") >= 1
  /\ CountOf(query.text_preview, "/") >= 1
  /\ Len(query.time_pattern) >= 3
  /\ query.time_pattern[2] > 0
  /\ ~RatLeq(query.text_time,
             << query.time_pattern[Len(query.time_pattern)], 1000 >>)

(***************************************************************************)
(* Properties of the chunks of a session                                   *)
(***************************************************************************)
\* the worker is in play_audio or has just returned from it: the session
\* variable holds what this worker was started with
InSession == InPlayAudio \/ workerPc = "notify"

\* the places of the sequence after which the claim has a chunk appended: the
\* WordGaps and the last symbol
FlushPlaces(txt) ==
  SelectSeq([k \in DOMAIN txt |-> k], LAMBDA k : txt[k] = "/" \/ k = Len(txt))

\* the samples of the symbols from place first to place last, in order: for
\* each symbol but the SpeedMarkers the wave or the silence of its duration
\* units, at the unit of the session's speed before the first SpeedMarker and
\* of the k-th profile entry after the k-th
Rendering(txt, first, last) ==
  LET places == SelectSeq([k \in DOMAIN txt |-> k],
                          LAMBDA k : /\ first <= k
                                     /\ k <= last
                                     /\ session.actions_length[txt[k]][1] # 2)
      unit(k) ==
        LET markers == Cardinality({ j \in 1..(k - 1) :
                                       session.actions_length[txt[j]][1] = 2 })
        IN  get_speed_from_text_type(session.text_type,
                                     IF markers = 0 THEN session.speed
                                     ELSE mode_speed_pattern[markers])
  IN  [j \in DOMAIN places |->
         [el |-> txt[places[j]],
          mult |-> session.actions_length[txt[places[j]]][2],
          unit |-> unit(places[j])]]

\* the samples of the symbols after the (k-1)-th flush place up to the k-th
SegmentRendering(txt, k) ==
  LET flushes == FlushPlaces(txt)
  IN  Rendering(txt, IF k = 1 THEN 1 ELSE flushes[k - 1] + 1, flushes[k])

RECURSIVE Concatenation(_)
Concatenation(chunks) ==
  IF chunks = << >> THEN << >>
  ELSE chunks[1] \o Concatenation(Tail(chunks))

\* C19: as long as it has not returned as Cancelled, the scheduler has
\* appended one chunk for each WordGap and final
\* symbol it has processed and none else, the k-th chunk holding exactly the
\* samples of the symbols after the (k-1)-th of these places up to the k-th;
\* the chunk it is about to append holds the samples since the last flush;
\* when it returns as Done the chunks, in append order, are the rendering of
\* the whole sequence
C19_FlushPointsNoLoss ==
  (InSession /\ result # "Cancelled") =>
    LET flushes == FlushPlaces(text_to_play)
        processed == { k \in DOMAIN flushes : flushes[k] < nextIndex }
        atFlush == workerPc \in {"flush_len", "flush_flag", "append"}
    IN  /\ Len(appended) = Cardinality(processed) - (IF atFlush THEN 1 ELSE 0)
        /\ \A k \in DOMAIN appended : appended[k] = SegmentRendering(text_to_play, k)
        /\ atFlush =>
             /\ nextIndex - 1 = flushes[Len(appended) + 1]
             /\ sound_signal = SegmentRendering(text_to_play, Len(appended) + 1)
        /\ result = "Done" =>
             /\ Len(appended) = Len(flushes)
             /\ Concatenation(appended) = Rendering(text_to_play, 1, Len(text_to_play))

\* a session of a text of two words with the start and the end part returned
\* as Done with no stop() call: several chunks, the last one ending with the
\* last symbol
C19_Witness ==
  /\ workerPc = "notify"
  /\ result = "Done"
  /\ ~stop_flag
  /\ session.text = << "E", " ", "E" >>
  /\ session.additions = "Training"
  /\ Len(appended) >= 4
  /\ Concatenation(appended) = Rendering(text_to_play, 1, Len(text_to_play))

\* C20: in the drain loop the scheduler goes on polling while the sink
\* reports pending chunks and the flag is unset; it returns as Done only from
\* a state where the sink holds no chunk, as Cancelled only from a state where
\* the flag is set; with the flag unset, notify_waiters is called only when no
\* chunk of the session is pending
C20_Draining ==
  /\ [][(workerPc \in {"drain_len", "drain_flag"} /\ workerPc' # workerPc) =>
          \/ workerPc' \in {"drain_len", "drain_flag"} /\ result' = result
          \/ workerPc' = "notify" /\ result' = "Done" /\ Len(sink) = 0
          \/ workerPc' = "notify" /\ result' = "Cancelled" /\ stop_flag]_vars
  /\ [][(result' # result /\ result' = "Done") => Len(sink) = 0]_vars
  /\ [][(result' # result /\ result' = "Cancelled") => stop_flag]_vars
  /\ [][(notifyCount' > notifyCount /\ ~stop_flag) =>
          (result = "Done" /\ OwnChunks = {})]_vars
  /\ []((workerPc = "notify" /\ ~stop_flag) => OwnChunks = {})

\* the scheduler returned as Done from the drain loop, the flag unset, after
\* the sink had played the chunks of the session
C20_Witness ==
  /\ workerPc = "notify"
  /\ result = "Done"
  /\ ~stop_flag
  /\ ~stopReturned
  /\ Len(appended) >= 1
  /\ sink = << >>

(***************************************************************************)
(* Properties of the encoder at spaces                                     *)
(***************************************************************************)
\* the spaces of the player's text that follow a character
WordEnds == { i \in DOMAIN text : i > 1 /\ text[i] = " " /\ text[i - 1] # " " }

\* the spaces of the player's text at which a ramp has just wrapped: the
\* non-space characters before the space fill whole windows
WrapSpaces ==
  { i \in DOMAIN text :
      /\ text[i] = " "
      /\ speed_modification_type # "None"
      /\ modification_len * 5 > 0
      /\ LET before == Cardinality({ j \in 1..(i - 1) : text[j] # " " })
         IN  before > 0 /\ before % (modification_len * 5) = 0 }

\* the SpeedMarkers no tone follows: those written at a space
GapMarkers(audio_vec) ==
  { p \in DOMAIN audio_vec :
      /\ audio_vec[p] = "|"
      /\ ~(p < Len(audio_vec) /\ audio_vec[p + 1] \in {".", "-"}) }

\* the last symbol before place p that is no SpeedMarker written at a space
BeforeGapMarkers(audio_vec, p) ==
  LET others == { q \in 1..(p - 1) : q \notin GapMarkers(audio_vec) }
  IN  IF others = {} THEN "none"
      ELSE audio_vec[CHOOSE q \in others : \A r \in others : r <= q]

\* C21: a space turns the gap after the last character into the WordGap: the
\* sequence has one WordGap for each run of spaces, it stands right after a
\* tone, and no CharacterGap is left before it.  At a space where the ramp has
\* just wrapped the encoder writes one SpeedMarker more and one profile entry
\* more, equal to min_speed: the marker stands before the WordGap, and the
\* entry in force at the WordGap is min_speed.  At no other space it does.
C21_WordBoundary ==
  (Previewed /\ ~query.panicked) =>
    LET av == query.text_preview
        sp == query.speed_pattern
    IN  /\ CountOf(av, "/") = Cardinality(WordEnds)
        /\ \A p \in DOMAIN av :
             av[p] = "/" => BeforeGapMarkers(av, p) \in {".", "-"}
        /\ \A p \in DOMAIN av :
             av[p] = "$" => p < Len(av) /\ av[p + 1] \in {".", "-", "|"}
        /\ Cardinality(GapMarkers(av)) = Cardinality(WrapSpaces)
        /\ \A p \in GapMarkers(av) :
             /\ p < Len(av)
             /\ av[p + 1] \in {"|", "/"}
             /\ av[p + 1] = "|" => p + 1 \in GapMarkers(av)
             /\ MarkersBefore(av, p + 1) <= Len(sp)
             /\ RatEq(sp[MarkersBefore(av, p + 1)], min_speed)
        /\ \A p \in DOMAIN av :
             (av[p] = "/" /\ p > 1 /\ av[p - 1] = "|") =>
               RatEq(sp[MarkersBefore(av, p)], min_speed)

\* a text whose first word fills a window, a space and a second word, under a
\* ramp whose ends differ
C21_Witness ==
  /\ Previewed
  /\ ~query.panicked
  /\ speed_modification_type = "Slowing"
  /\ WrapSpaces # {}
  /\ text[Len(text)] # " "
  /\ ~RatEq(min_speed, max_speed)
  /\ \E p \in GapMarkers(query.text_preview) : query.text_preview[p + 1] = "/"

\* a window whose ramp denominators are not zero: modification_len - 1 for
\* Speedup and Slowing, modification_len / 2 - 1 for Zigzag, with the length
\* the encoder uses, five times the player's
NonZeroDenominators ==
  LET len == modification_len * 5
  IN  IF speed_modification_type = "Zigzag"
        THEN TruncDiv(len, 2) - 1 # 0
        ELSE len - 1 # 0

\* C22: under Speedup, Slowing or Zigzag, with min_speed <= max_speed and a
\* window of at least one whose ramp denominators are not zero, every value of
\* the speed profile lies between min_speed and max_speed inclusive.
C22_SpeedsInRange ==
  ( /\ Previewed
    /\ ~query.panicked
    /\ speed_modification_type \in {"Speedup", "Slowing", "Zigzag"}
    /\ RatLeq(min_speed, max_speed)
    /\ modification_len >= 1
    /\ NonZeroDenominators ) =>
    \A k \in DOMAIN query.speed_pattern :
      /\ RatLeq(min_speed, query.speed_pattern[k])
      /\ RatLeq(query.speed_pattern[k], max_speed)

\* the places of the codes of the text's characters that hold the tone c
TonesOfText(c) ==
  UNION { { << k, n >> : n \in { m \in DOMAIN morse[text[k]] : morse[text[k]][m] = c } }
          : k \in NonSpaces }

\* the gaps between the tones of the text's characters
IntraGapsOfText ==
  UNION { { << k, n >> : n \in 1..(Len(morse[text[k]]) - 1) } : k \in NonSpaces }

\* C23: the encoder returns a sequence for every text over the alphabet and
\* the space, a text that starts with a space and one with consecutive spaces
\* included, and a space overwrites a CharacterGap or a WordGap only: every
\* tone and every gap between the tones of a character is still there.
C23_EncodeTotalOnSpaces ==
  Previewed =>
    /\ ~query.panicked
    /\ CountOf(query.text_preview, ".") = Cardinality(TonesOfText("."))
    /\ CountOf(query.text_preview, "-") = Cardinality(TonesOfText("-"))
    /\ CountOf(query.text_preview, "*") = Cardinality(IntraGapsOfText)

====
